---- MODULE Spec2Model ----
(***************************************************************************)
(* DefaultOperationLongPollChannel (client-cpp): the lifecycle and         *)
(* concurrency state machine of the long-poll operations channel.          *)
(*                                                                         *)
(* Caller threads run startPoll, stopPoll, sync, syncAll, setServer,       *)
(* setMultiplexer and setDemultiplexer; the threads running io_.run()      *)
(* execute the posted executeTask handlers.  A critical section under      *)
(* channelGuard_ that calls nothing blocking is one atomic action; the     *)
(* worker's first critical section, which spans compileRequest and         *)
(* createOperationRequest, is kept open across two actions, so the mutex   *)
(* is a variable.                                                          *)
(***************************************************************************)
EXTENDS Integers, FiniteSets, Sequences, TLC

\* Slots for threads running io_.run(); slot w runs once pollThread_ >= w.
MaxWorkers == 2
\* Cap on the handlers waiting in io_.
MaxQueue == 2

\* Caller threads of the channel's owner.
Threads == {"t1", "t2"}
Workers == 1..MaxWorkers

\* A null pointer (currentServer_, multiplexer_, demultiplexer_), an unused argument.
Null == "null"

\* Server descriptors handed to setServer, and their ChannelType.
LongPollServers == {"A", "B"}
ServerInfos == LongPollServers \cup {"H"}
getType(s) == IF s \in LongPollServers THEN "HTTP_LP" ELSE "HTTP"

\* SUPPORTED_TYPES, and the categories sync is called with: one bidirectional,
\* the downward one, and LOGGING, which SUPPORTED_TYPES does not hold.
SUPPORTED_TYPES ==
    [t \in {"PROFILE", "CONFIGURATION", "NOTIFICATION", "USER", "EVENT"} |->
        IF t = "EVENT" THEN "DOWN" ELSE "BIDIRECTIONAL"]
TransportTypes == {"PROFILE", "EVENT", "LOGGING"}

VARIABLES
    stopped_,               \* bool stopped_
    connectionInProgress_,  \* bool connectionInProgress_
    taskPosted_,            \* bool taskPosted_
    firstStart_,            \* bool firstStart_
    multiplexer_,           \* Null or the multiplexer
    demultiplexer_,         \* Null or the demultiplexer
    currentServer_,         \* Null or the bound server descriptor
    encDec_,                \* server whose key httpDataProcessor_'s encoder holds
    channelGuard_,          \* 0: free; w: held by worker w across compileRequest
    io_,                    \* number of executeTask handlers queued in io_
    pollThread_,            \* number of threads created to run io_.run()
    closeRequested,         \* httpClient_: closeConnection called on the pending send
    crashed,                \* the process was terminated (std::terminate, null dereference)
    undefined,              \* a null pointer was dereferenced and the call went on
    wpc,                    \* worker -> position in executeTask
    server,                 \* worker -> executeTask's local `server`
    isServerFailed,         \* worker -> executeTask's local `isServerFailed`
    cause,                  \* worker -> why the cycle reached the catch block
    failedCalls,            \* worker -> calls of onServerFailed in the current cycle
    pc,                     \* caller -> position
    op,                     \* caller -> public operation in progress
    arg                     \* caller -> its argument

chan == <<stopped_, connectionInProgress_, taskPosted_, firstStart_, multiplexer_,
          demultiplexer_, currentServer_, encDec_, channelGuard_, io_, pollThread_,
          closeRequested, crashed, undefined>>
work == <<wpc, server, isServerFailed, cause, failedCalls>>
call == <<pc, op, arg>>
vars == <<chan, work, call>>

\* The state the constructor leaves.
Init ==
    /\ stopped_ = TRUE
    /\ connectionInProgress_ = FALSE
    /\ taskPosted_ = FALSE
    /\ firstStart_ = TRUE
    /\ multiplexer_ = Null
    /\ demultiplexer_ = Null
    /\ currentServer_ = Null
    /\ encDec_ = Null
    /\ channelGuard_ = 0
    /\ io_ = 0
    /\ pollThread_ = 0
    /\ closeRequested = FALSE
    /\ crashed = FALSE
    /\ undefined = FALSE
    /\ wpc = [w \in Workers |-> "idle"]
    /\ server = [w \in Workers |-> Null]
    /\ isServerFailed = [w \in Workers |-> FALSE]
    /\ cause = [w \in Workers |-> Null]
    /\ failedCalls = [w \in Workers |-> 0]
    /\ pc = [t \in Threads |-> "idle"]
    /\ op = [t \in Threads |-> Null]
    /\ arg = [t \in Threads |-> Null]

\* The process runs, and its behaviour is defined: after the dereference of a
\* null pointer nothing more is said of it.
Running == ~crashed /\ ~undefined

\* The process runs and channelGuard_ can be locked.
CanLock == Running /\ channelGuard_ = 0

----
\* Caller side.

\* The entry point of each public operation.
Entry(o) ==
    CASE o = "startPoll" -> "start"
      [] o = "stopPoll" -> "stop"
      [] OTHER -> o

\* The arguments an operation is called with.
Args(o) ==
    CASE o = "sync" -> TransportTypes
      [] o = "setServer" -> ServerInfos
      [] o = "setMultiplexer" -> {Null, "mux"}
      [] o = "setDemultiplexer" -> {Null, "demux"}
      [] OTHER -> {Null}

Operations ==
    {"startPoll", "stopPoll", "sync", "syncAll", "setServer", "setMultiplexer",
     "setDemultiplexer"}

\* A caller thread enters a public operation.
Call(t) ==
    /\ Running
    /\ pc[t] = "idle"
    /\ \E o \in Operations : \E a \in Args(o) :
        /\ op' = [op EXCEPT ![t] = o]
        /\ arg' = [arg EXCEPT ![t] = a]
        /\ pc' = [pc EXCEPT ![t] = Entry(o)]
    /\ UNCHANGED <<chan, work>>

\* The public operation returns to its caller.
Return(t) ==
    /\ pc' = [pc EXCEPT ![t] = "idle"]
    /\ op' = [op EXCEPT ![t] = Null]
    /\ arg' = [arg EXCEPT ![t] = Null]

\* postTask: io_.post(executeTask); taskPosted_ = true.
postTask ==
    /\ io_ < MaxQueue
    /\ io_' = io_ + 1
    /\ taskPosted_' = TRUE

\* startThread with firstStart_ left set: every startPoll creates a thread.
startThreadKeepsFirstStart ==
    IF firstStart_
    THEN /\ pollThread_ < MaxWorkers
         /\ pollThread_' = pollThread_ + 1
         /\ UNCHANGED firstStart_
    ELSE UNCHANGED <<pollThread_, firstStart_>>

\* startThread that creates a thread whenever the channel is started from stopped.
startThreadEveryStart ==
    IF firstStart_ \/ stopped_
    THEN /\ pollThread_ < MaxWorkers
         /\ pollThread_' = pollThread_ + 1
         /\ firstStart_' = FALSE
    ELSE UNCHANGED <<pollThread_, firstStart_>>

\* startPoll, lines 49-53: the thread is created on the first start only.
startThread ==
    IF firstStart_
    THEN /\ pollThread_ < MaxWorkers
         /\ pollThread_' = pollThread_ + 1
         /\ firstStart_' = FALSE
    ELSE UNCHANGED <<pollThread_, firstStart_>>

\* startIfStopped without the test of stopped_: every startPoll posts a task.
startIfStoppedUnguarded ==
    /\ stopped_' = FALSE
    /\ postTask

\* startPoll, lines 54-60: a stopped channel is started and one task posted.
startIfStopped ==
    IF stopped_
    THEN /\ stopped_' = FALSE
         /\ postTask
    ELSE UNCHANGED <<stopped_, io_, taskPosted_>>

\* startPoll, whole body under channelGuard_; also the tail of sync, syncAll, setServer.
StartPoll(t) ==
    /\ CanLock
    /\ pc[t] = "start"
    /\ startThread
    /\ startIfStopped
    /\ Return(t)
    /\ UNCHANGED <<connectionInProgress_, multiplexer_, demultiplexer_, currentServer_,
                   encDec_, channelGuard_, closeRequested, crashed, undefined, work>>

\* Where a caller continues when the stopPoll it called returns.
AfterStop(t) ==
    IF op[t] = "stopPoll"
    THEN Return(t)
    ELSE /\ pc' = [pc EXCEPT ![t] = IF op[t] = "setServer" THEN "bind" ELSE "start"]
         /\ UNCHANGED <<op, arg>>

\* stopPoll, lines 68-76: up to the return or to the first block in
\* waitCondition_.wait (the predicate is false there: connectionInProgress_ holds).
StopPoll(t) ==
    /\ CanLock
    /\ pc[t] = "stop"
    /\ IF ~stopped_
       THEN /\ stopped_' = TRUE
            /\ IF connectionInProgress_
               THEN /\ closeRequested' = TRUE
                    /\ pc' = [pc EXCEPT ![t] = "waiting"]
                    /\ UNCHANGED <<op, arg>>
               ELSE /\ AfterStop(t)
                    /\ UNCHANGED closeRequested
       ELSE /\ AfterStop(t)
            /\ UNCHANGED <<stopped_, closeRequested>>
    /\ UNCHANGED <<connectionInProgress_, taskPosted_, firstStart_, multiplexer_,
                   demultiplexer_, currentServer_, encDec_, channelGuard_, io_,
                   pollThread_, crashed, undefined, work>>

\* A waiter of waitCondition_ wakes without a notification.
SpuriousWake(t) ==
    /\ Running
    /\ pc[t] = "waiting"
    /\ pc' = [pc EXCEPT ![t] = "woken"]
    /\ UNCHANGED <<op, arg, chan, work>>

\* stopPoll, line 74: a woken waiter relocks channelGuard_ and tests the predicate.
Wake(t) ==
    /\ CanLock
    /\ pc[t] = "woken"
    /\ IF ~connectionInProgress_
       THEN AfterStop(t)
       ELSE /\ pc' = [pc EXCEPT ![t] = "waiting"]
            /\ UNCHANGED <<op, arg>>
    /\ UNCHANGED <<chan, work>>

\* waitCondition_.notify_all().
notifyAll(p) == [t \in Threads |-> IF p[t] = "waiting" THEN "woken" ELSE p[t]]

\* syncSupported without the test of the direction.
syncSupportedAnyDirection(type) == type \in DOMAIN SUPPORTED_TYPES

\* sync, line 157: the category is supported and flows upward.
syncSupported(type) ==
    /\ type \in DOMAIN SUPPORTED_TYPES
    /\ SUPPORTED_TYPES[type] \in {"UP", "BIDIRECTIONAL"}

\* sync, lines 156-173, up to the call of stopPoll.
Sync(t) ==
    /\ Running
    /\ pc[t] = "sync"
    /\ IF syncSupported(arg[t])
       THEN /\ channelGuard_ = 0
            /\ IF currentServer_ # Null
               THEN /\ pc' = [pc EXCEPT ![t] = "stop"]
                    /\ arg' = [arg EXCEPT ![t] = Null]
                    /\ UNCHANGED op
               ELSE Return(t)
       ELSE Return(t)
    /\ UNCHANGED <<chan, work>>

\* syncAll, lines 178-190, up to the call of stopPoll.
SyncAll(t) ==
    /\ CanLock
    /\ pc[t] = "syncAll"
    /\ IF currentServer_ # Null
       THEN /\ pc' = [pc EXCEPT ![t] = "stop"]
            /\ UNCHANGED <<op, arg>>
       ELSE Return(t)
    /\ UNCHANGED <<chan, work>>

\* setServer, lines 211-212 and 223-225: the kind of the descriptor is tested.
SetServer(t) ==
    /\ Running
    /\ pc[t] = "setServer"
    /\ IF getType(arg[t]) = "HTTP_LP"
       THEN /\ pc' = [pc EXCEPT ![t] = "stop"]
            /\ UNCHANGED <<op, arg>>
       ELSE Return(t)
    /\ UNCHANGED <<chan, work>>

\* setServer, lines 214-221: the binding is replaced under channelGuard_.
Bind(t) ==
    /\ CanLock
    /\ pc[t] = "bind"
    /\ currentServer_' = arg[t]
    /\ encDec_' = arg[t]
    /\ pc' = [pc EXCEPT ![t] = "start"]
    /\ arg' = [arg EXCEPT ![t] = Null]
    /\ UNCHANGED <<op, stopped_, connectionInProgress_, taskPosted_, firstStart_,
                   multiplexer_, demultiplexer_, channelGuard_, io_, pollThread_,
                   closeRequested, crashed, undefined, work>>

\* setMultiplexer.
SetMultiplexer(t) ==
    /\ CanLock
    /\ pc[t] = "setMultiplexer"
    /\ multiplexer_' = arg[t]
    /\ Return(t)
    /\ UNCHANGED <<stopped_, connectionInProgress_, taskPosted_, firstStart_,
                   demultiplexer_, currentServer_, encDec_, channelGuard_, io_,
                   pollThread_, closeRequested, crashed, undefined, work>>

\* setDemultiplexer.
SetDemultiplexer(t) ==
    /\ CanLock
    /\ pc[t] = "setDemultiplexer"
    /\ demultiplexer_' = arg[t]
    /\ Return(t)
    /\ UNCHANGED <<stopped_, connectionInProgress_, taskPosted_, firstStart_,
                   multiplexer_, currentServer_, encDec_, channelGuard_, io_,
                   pollThread_, closeRequested, crashed, undefined, work>>

----
\* Worker side: executeTask, run by a thread inside io_.run().

\* The locals of executeTask when it is left.
Leave(w) ==
    /\ wpc' = [wpc EXCEPT ![w] = "idle"]
    /\ server' = [server EXCEPT ![w] = Null]
    /\ isServerFailed' = [isServerFailed EXCEPT ![w] = FALSE]
    /\ cause' = [cause EXCEPT ![w] = Null]
    /\ failedCalls' = [failedCalls EXCEPT ![w] = 0]

\* executeTask, lines 88-96: a handler is taken from io_; a stopped channel
\* returns, a running one marks the request in progress and captures the server.
\* channelGuard_ stays locked into compileRequest.
ExecBegin(w) ==
    /\ CanLock
    /\ w <= pollThread_
    /\ wpc[w] = "idle"
    /\ io_ > 0
    /\ io_' = io_ - 1
    /\ taskPosted_' = FALSE
    /\ IF stopped_
       THEN UNCHANGED <<connectionInProgress_, channelGuard_, work>>
       ELSE /\ connectionInProgress_' = TRUE
            /\ channelGuard_' = w
            /\ wpc' = [wpc EXCEPT ![w] = "compile"]
            /\ server' = [server EXCEPT ![w] = currentServer_]
            /\ UNCHANGED <<isServerFailed, cause, failedCalls>>
    /\ UNCHANGED <<stopped_, firstStart_, multiplexer_, demultiplexer_, currentServer_,
                   encDec_, pollThread_, closeRequested, crashed, undefined, call>>

\* executeTask, lines 103-107: channelGuard_ is released and sendRequest entered.
enterSend(w) ==
    /\ channelGuard_' = 0
    /\ wpc' = [wpc EXCEPT ![w] = "send"]
    /\ UNCHANGED <<crashed, server, isServerFailed, cause, failedCalls>>

\* The process is terminated: an exception left the thread function, or a null
\* pointer was dereferenced.
terminate(w, why) ==
    /\ crashed' = TRUE
    /\ cause' = [cause EXCEPT ![w] = why]
    /\ UNCHANGED <<channelGuard_, wpc, server, isServerFailed, failedCalls, undefined>>

\* executeTask, lines 98-103: compileRequest and createOperationRequest under
\* channelGuard_.  Both lie outside the try block: an exception of the multiplexer
\* leaves executeTask and io_.run().  A null multiplexer_ or a null server is
\* dereferenced: the process dies, or the call happens to go on and a request
\* is sent (not followed further).
Compile(w) ==
    /\ Running
    /\ wpc[w] = "compile"
    /\ \/ /\ multiplexer_ # Null
          /\ server[w] # Null
          /\ enterSend(w)
          /\ UNCHANGED undefined
       \/ /\ multiplexer_ # Null
          /\ terminate(w, "compileRequest")
       \/ /\ multiplexer_ = Null \/ server[w] = Null
          /\ \/ terminate(w, "nullptr")
             \/ /\ enterSend(w)
                /\ undefined' = TRUE
    /\ UNCHANGED <<stopped_, connectionInProgress_, taskPosted_, firstStart_,
                   multiplexer_, demultiplexer_, currentServer_, encDec_, io_,
                   pollThread_, closeRequested, call>>

\* httpClient_.sendRequest returns a response.
SendOk(w) ==
    /\ Running
    /\ wpc[w] = "send"
    /\ wpc' = [wpc EXCEPT ![w] = "respond"]
    /\ UNCHANGED <<chan, server, isServerFailed, cause, failedCalls, call>>

\* httpClient_.sendRequest throws: the connection was closed by stopPoll, or the
\* transport failed.
SendFail(w) ==
    /\ Running
    /\ wpc[w] = "send"
    /\ wpc' = [wpc EXCEPT ![w] = "caught"]
    /\ cause' = [cause EXCEPT ![w] = IF closeRequested THEN "closed" ELSE "transport"]
    /\ UNCHANGED <<chan, server, isServerFailed, failedCalls, call>>

\* executeTask, lines 109-116: connectionInProgress_ is cleared under
\* channelGuard_ and the response decoded; retrieveOperationResponse may throw.
Retrieve(w) ==
    /\ CanLock
    /\ wpc[w] = "respond"
    /\ connectionInProgress_' = FALSE
    /\ closeRequested' = FALSE
    /\ \/ /\ wpc' = [wpc EXCEPT ![w] = "process"]
          /\ UNCHANGED cause
       \/ /\ wpc' = [wpc EXCEPT ![w] = "caught"]
          /\ cause' = [cause EXCEPT ![w] = "retrieveOperationResponse"]
    /\ UNCHANGED <<stopped_, taskPosted_, firstStart_, multiplexer_, demultiplexer_,
                   currentServer_, encDec_, channelGuard_, io_, pollThread_, crashed,
                   undefined, server, isServerFailed, failedCalls, call>>

\* executeTask, lines 117-120: processResponse without channelGuard_, then
\* notify_all.  A null demultiplexer_ is dereferenced: the process dies, or the
\* call happens to go on (not followed further).
Process(w) ==
    /\ Running
    /\ wpc[w] = "process"
    /\ \/ /\ demultiplexer_ # Null
          /\ wpc' = [wpc EXCEPT ![w] = "rearm"]
          /\ pc' = notifyAll(pc)
          /\ UNCHANGED <<crashed, undefined, cause>>
       \/ /\ demultiplexer_ # Null
          /\ wpc' = [wpc EXCEPT ![w] = "caught"]
          /\ cause' = [cause EXCEPT ![w] = "processResponse"]
          /\ UNCHANGED <<crashed, undefined, pc>>
       \/ /\ demultiplexer_ = Null
          /\ \/ /\ crashed' = TRUE
                /\ cause' = [cause EXCEPT ![w] = "nullptr"]
                /\ UNCHANGED <<wpc, pc, undefined>>
             \/ /\ wpc' = [wpc EXCEPT ![w] = "rearm"]
                /\ pc' = notifyAll(pc)
                /\ undefined' = TRUE
                /\ UNCHANGED <<crashed, cause>>
    /\ UNCHANGED <<stopped_, connectionInProgress_, taskPosted_, firstStart_,
                   multiplexer_, demultiplexer_, currentServer_, encDec_, channelGuard_,
                   io_, pollThread_, closeRequested, server, isServerFailed,
                   failedCalls, op, arg>>

\* Catch with connectionInProgress_ left as it is.
CatchKeepsInProgress(w) ==
    /\ CanLock
    /\ wpc[w] = "caught"
    /\ closeRequested' = FALSE
    /\ IF stopped_
       THEN UNCHANGED <<stopped_, isServerFailed>>
       ELSE /\ isServerFailed' = [isServerFailed EXCEPT ![w] = TRUE]
            /\ stopped_' = TRUE
    /\ wpc' = [wpc EXCEPT ![w] = "notify"]
    /\ UNCHANGED <<connectionInProgress_, taskPosted_, firstStart_, multiplexer_,
                   demultiplexer_, currentServer_, encDec_, channelGuard_, io_,
                   pollThread_, crashed, undefined, server, cause, failedCalls, call>>

\* executeTask, lines 123-136: the catch block's critical section.
Catch(w) ==
    /\ CanLock
    /\ wpc[w] = "caught"
    /\ connectionInProgress_' = FALSE
    /\ closeRequested' = FALSE
    /\ IF stopped_
       THEN UNCHANGED <<stopped_, isServerFailed>>
       ELSE /\ isServerFailed' = [isServerFailed EXCEPT ![w] = TRUE]
            /\ stopped_' = TRUE
    /\ wpc' = [wpc EXCEPT ![w] = "notify"]
    /\ UNCHANGED <<taskPosted_, firstStart_, multiplexer_, demultiplexer_,
                   currentServer_, encDec_, channelGuard_, io_, pollThread_, crashed,
                   undefined, server, cause, failedCalls, call>>

\* executeTask, lines 139-143: notify_all, then onServerFailed(server) is
\* entered if the failure was not a cancellation.
Notify(w) ==
    /\ Running
    /\ wpc[w] = "notify"
    /\ pc' = notifyAll(pc)
    /\ IF isServerFailed[w]
       THEN /\ wpc' = [wpc EXCEPT ![w] = "escalate"]
            /\ failedCalls' = [failedCalls EXCEPT ![w] = @ + 1]
            /\ UNCHANGED <<server, isServerFailed, cause>>
       ELSE Leave(w)
    /\ UNCHANGED <<chan, op, arg>>

\* channelManager_->onServerFailed(server) returns, and executeTask with it.
Escalate(w) ==
    /\ Running
    /\ wpc[w] = "escalate"
    /\ Leave(w)
    /\ UNCHANGED <<chan, call>>

\* Inside onServerFailed the channel manager calls back into the channel on
\* the thread of io_.run(): setServer with a long-poll server, or startPoll.
Reenter(w) ==
    /\ Running
    /\ wpc[w] = "escalate"
    /\ \E p \in {"reStop", "reStart"} : wpc' = [wpc EXCEPT ![w] = p]
    /\ UNCHANGED <<chan, server, isServerFailed, cause, failedCalls, call>>

\* stopPoll, lines 68-76, called by setServer on the thread of io_.run(): the
\* thread blocks in waitCondition_.wait while connectionInProgress_ holds.
ReenterStopPoll(w) ==
    /\ CanLock
    /\ \/ /\ wpc[w] = "reStop"
          /\ IF ~stopped_
             THEN /\ stopped_' = TRUE
                  /\ IF connectionInProgress_
                     THEN /\ closeRequested' = TRUE
                          /\ wpc' = [wpc EXCEPT ![w] = "reWaiting"]
                     ELSE /\ wpc' = [wpc EXCEPT ![w] = "reBind"]
                          /\ UNCHANGED closeRequested
             ELSE /\ wpc' = [wpc EXCEPT ![w] = "reBind"]
                  /\ UNCHANGED <<stopped_, closeRequested>>
       \/ /\ wpc[w] = "reWaiting"
          /\ ~connectionInProgress_
          /\ wpc' = [wpc EXCEPT ![w] = "reBind"]
          /\ UNCHANGED <<stopped_, closeRequested>>
    /\ UNCHANGED <<connectionInProgress_, taskPosted_, firstStart_, multiplexer_,
                   demultiplexer_, currentServer_, encDec_, channelGuard_, io_,
                   pollThread_, crashed, undefined, server, isServerFailed, cause,
                   failedCalls, call>>

\* setServer, lines 214-221, on the thread of io_.run().
ReenterBind(w) ==
    /\ CanLock
    /\ wpc[w] = "reBind"
    /\ \E s \in LongPollServers :
        /\ currentServer_' = s
        /\ encDec_' = s
    /\ wpc' = [wpc EXCEPT ![w] = "reStart"]
    /\ UNCHANGED <<stopped_, connectionInProgress_, taskPosted_, firstStart_,
                   multiplexer_, demultiplexer_, channelGuard_, io_, pollThread_,
                   closeRequested, crashed, undefined, server, isServerFailed, cause,
                   failedCalls, call>>

\* startPoll on the thread of io_.run(); the callback, onServerFailed and
\* executeTask return.
ReenterStartPoll(w) ==
    /\ CanLock
    /\ wpc[w] = "reStart"
    /\ startThread
    /\ startIfStopped
    /\ Leave(w)
    /\ UNCHANGED <<connectionInProgress_, multiplexer_, demultiplexer_, currentServer_,
                   encDec_, channelGuard_, closeRequested, crashed, undefined, call>>

\* Rearm without the post: a cycle that succeeded posts nothing.
RearmNoPost(w) ==
    /\ CanLock
    /\ wpc[w] = "rearm"
    /\ Leave(w)
    /\ UNCHANGED <<chan, call>>

\* executeTask, lines 147-151: a cycle that succeeded posts the next one.
Rearm(w) ==
    /\ CanLock
    /\ wpc[w] = "rearm"
    /\ IF ~stopped_ /\ ~taskPosted_
       THEN postTask
       ELSE UNCHANGED <<io_, taskPosted_>>
    /\ Leave(w)
    /\ UNCHANGED <<stopped_, connectionInProgress_, firstStart_, multiplexer_,
                   demultiplexer_, currentServer_, encDec_, channelGuard_, pollThread_,
                   closeRequested, crashed, undefined, call>>

----
Next ==
    \/ \E t \in Threads : Call(t)
    \/ \E t \in Threads : StartPoll(t)
    \/ \E t \in Threads : StopPoll(t)
    \/ \E t \in Threads : SpuriousWake(t)
    \/ \E t \in Threads : Wake(t)
    \/ \E t \in Threads : Sync(t)
    \/ \E t \in Threads : SyncAll(t)
    \/ \E t \in Threads : SetServer(t)
    \/ \E t \in Threads : Bind(t)
    \/ \E t \in Threads : SetMultiplexer(t)
    \/ \E t \in Threads : SetDemultiplexer(t)
    \/ \E w \in Workers : ExecBegin(w)
    \/ \E w \in Workers : Compile(w)
    \/ \E w \in Workers : SendOk(w)
    \/ \E w \in Workers : SendFail(w)
    \/ \E w \in Workers : Retrieve(w)
    \/ \E w \in Workers : Process(w)
    \/ \E w \in Workers : Catch(w)
    \/ \E w \in Workers : Notify(w)
    \/ \E w \in Workers : Escalate(w)
    \/ \E w \in Workers : Reenter(w)
    \/ \E w \in Workers : ReenterStopPoll(w)
    \/ \E w \in Workers : ReenterBind(w)
    \/ \E w \in Workers : ReenterStartPoll(w)
    \/ \E w \in Workers : Rearm(w)

Spec == Init /\ [][Next]_vars

----
\* The channel used as its owner is meant to use it, over a transport that
\* fails only when stopPoll closes the connection: the collaborators are set
\* and never unset, they do not throw, and polling is started only on a
\* configured channel.

\* What a caller may call in that use.
LiveCall(t) ==
    /\ Call(t)
    /\ op'[t] \in {"setMultiplexer", "setDemultiplexer"} => arg'[t] # Null
    /\ op'[t] \in {"startPoll", "sync", "syncAll", "setServer"}
        => (multiplexer_ # Null /\ demultiplexer_ # Null)
    /\ op'[t] = "startPoll" => currentServer_ # Null

\* compileRequest returns.
LiveCompile(w) == Compile(w) /\ ~crashed' /\ ~undefined'

\* sendRequest fails only on a closed connection.
LiveSendFail(w) == SendFail(w) /\ closeRequested

\* The response is decoded.
LiveRetrieve(w) == Retrieve(w) /\ wpc'[w] = "process"

\* processResponse returns.
LiveProcess(w) == Process(w) /\ wpc'[w] = "rearm" /\ ~undefined'

NextLive ==
    \/ \E t \in Threads : LiveCall(t)
    \/ \E t \in Threads : StartPoll(t)
    \/ \E t \in Threads : StopPoll(t)
    \/ \E t \in Threads : SpuriousWake(t)
    \/ \E t \in Threads : Wake(t)
    \/ \E t \in Threads : Sync(t)
    \/ \E t \in Threads : SyncAll(t)
    \/ \E t \in Threads : SetServer(t)
    \/ \E t \in Threads : Bind(t)
    \/ \E t \in Threads : SetMultiplexer(t)
    \/ \E t \in Threads : SetDemultiplexer(t)
    \/ \E w \in Workers : ExecBegin(w)
    \/ \E w \in Workers : LiveCompile(w)
    \/ \E w \in Workers : SendOk(w)
    \/ \E w \in Workers : LiveSendFail(w)
    \/ \E w \in Workers : LiveRetrieve(w)
    \/ \E w \in Workers : LiveProcess(w)
    \/ \E w \in Workers : Catch(w)
    \/ \E w \in Workers : Notify(w)
    \/ \E w \in Workers : Escalate(w)
    \/ \E w \in Workers : Reenter(w)
    \/ \E w \in Workers : ReenterStopPoll(w)
    \/ \E w \in Workers : ReenterBind(w)
    \/ \E w \in Workers : ReenterStartPoll(w)
    \/ \E w \in Workers : Rearm(w)

\* The thread of io_.run() is scheduled, and a pending send returns.
WorkerFairness ==
    \A w \in Workers :
        /\ WF_vars(ExecBegin(w))
        /\ WF_vars(LiveCompile(w))
        /\ WF_vars(SendOk(w))
        /\ WF_vars(LiveRetrieve(w))
        /\ WF_vars(LiveProcess(w))
        /\ WF_vars(Catch(w))
        /\ WF_vars(Notify(w))
        /\ WF_vars(Escalate(w))
        /\ WF_vars(ReenterStopPoll(w))
        /\ WF_vars(ReenterBind(w))
        /\ WF_vars(ReenterStartPoll(w))
        /\ WF_vars(Rearm(w))

SpecLive == Init /\ [][NextLive]_vars /\ WorkerFairness

----
\* The channel in the same use, over a transport of which only this is known:
\* a pending sendRequest ends once closeConnection was called.

\* sendRequest ends, with a response or with an exception, after closeConnection.
SendEnds(w) == (SendOk(w) \/ LiveSendFail(w)) /\ closeRequested

\* waitCondition_.wait finds connectionInProgress_ false and stopPoll goes on.
WakeDone(t) == Wake(t) /\ ~connectionInProgress_

\* The thread of io_.run() is scheduled; a woken caller that keeps finding
\* its predicate true gets channelGuard_ in the end.
StopFairness ==
    /\ \A w \in Workers :
        /\ WF_vars(ExecBegin(w))
        /\ WF_vars(LiveCompile(w))
        /\ WF_vars(SendEnds(w))
        /\ WF_vars(LiveRetrieve(w))
        /\ WF_vars(LiveProcess(w))
        /\ WF_vars(Catch(w))
        /\ WF_vars(Notify(w))
        /\ WF_vars(Escalate(w))
        /\ WF_vars(ReenterStopPoll(w))
        /\ WF_vars(ReenterBind(w))
        /\ WF_vars(ReenterStartPoll(w))
        /\ WF_vars(Rearm(w))
    /\ \A t \in Threads : SF_vars(WakeDone(t))

SpecStop == Init /\ [][NextLive]_vars /\ StopFairness

\* A caller that is inside a call goes on once channelGuard_ stays free, also
\* when it is woken in stopPoll with its predicate true.
CallerFairness ==
    \A t \in Threads :
        /\ WF_vars(StartPoll(t))
        /\ WF_vars(StopPoll(t))
        /\ WF_vars(WakeDone(t))
        /\ WF_vars(Sync(t))
        /\ WF_vars(SyncAll(t))
        /\ WF_vars(SetServer(t))
        /\ WF_vars(Bind(t))
        /\ WF_vars(SetMultiplexer(t))
        /\ WF_vars(SetDemultiplexer(t))

\* The use of SpecLive with callers that are scheduled.
SpecSync == Init /\ [][NextLive]_vars /\ WorkerFairness /\ CallerFairness

----
\* Claims.

\* A worker is between the entry of httpClient_.sendRequest and its return or failure.
InSend(w) == wpc[w] = "send"

\* A worker is inside a poll cycle whose request is outstanding or being handled.
InCycle(w) == wpc[w] \in {"compile", "send", "respond", "caught"}

\* The step is the return of the stopPoll that thread t called.
stopReturns(t) ==
    /\ pc[t] \in {"stop", "woken"}
    /\ pc'[t] \notin {"stop", "waiting", "woken"}

\* C1: at most one poll cycle is in the 'request sent, response pending' state,
\* for every interleaving of the lifecycle calls of the caller threads.
AtMostOneInFlight == Cardinality({w \in Workers : InSend(w)}) <= 1

\* C1's case: a request is pending while a second poll task is queued, one
\* caller is blocked in stopPoll and another is about to run startPoll.
AtMostOneInFlightWitness ==
    /\ \E w \in Workers : InSend(w)
    /\ io_ >= 1
    /\ \E t, u \in Threads : pc[t] = "waiting" /\ pc[u] = "start"

\* C2: every call of stopPoll returns only with connectionInProgress_ false.
StopReturnsQuiescent ==
    [][\A t \in Threads :
        stopReturns(t) => ~connectionInProgress_']_vars

\* C3: a request that failed because stopPoll closed the connection is never
\* escalated: the catch block leaves isServerFailed false for it.
CancellationNotEscalated ==
    \A w \in Workers :
        (wpc[w] \in {"notify", "escalate"} /\ cause[w] = "closed")
            => ~isServerFailed[w]

\* C4: when the send of a cycle fails on a running channel, the catch block
\* leaves the channel stopped with no request in progress, and onServerFailed is
\* called exactly once, with the server that is bound at failure time.
FailureEscalation ==
    [][\A w \in Workers :
        /\ (wpc[w] = "caught" /\ wpc'[w] = "notify" /\ cause[w] = "transport"
                /\ ~stopped_)
            => /\ isServerFailed'[w]
               /\ stopped_' /\ ~connectionInProgress_'
               /\ server[w] = currentServer_
        /\ (wpc[w] = "notify" /\ wpc'[w] # "notify")
            => failedCalls'[w] = (IF isServerFailed[w] THEN 1 ELSE 0)
        /\ (wpc[w] = "escalate" /\ wpc'[w] # "escalate") => failedCalls[w] = 1]_vars

\* C5: when setServer replaces currentServer_ and the encoder, no poll cycle is
\* in flight against the binding it replaces.
RebindSerialized ==
    [][\A t \in Threads :
        (pc[t] = "bind" /\ pc'[t] = "start")
            => /\ ~connectionInProgress_
               /\ \A w \in Workers : ~(InCycle(w) /\ server[w] = currentServer_)]_vars

\* The step is the body of the startPoll that thread t called.
startRuns(t) == pc[t] = "start" /\ pc'[t] # "start"

\* The step is the body of the stopPoll that thread t called, up to its return
\* or its first wait.
stopRuns(t) == pc[t] = "stop" /\ pc'[t] # "stop"

\* C6: over a transport that always succeeds, a request is entered only when
\* no response waits to be handed to the demultiplexer or is being processed,
\* and once a response has arrived a further request is eventually sent unless
\* the channel is stopped.
SelfRearm ==
    /\ [](\A w, v \in Workers : InSend(w) => wpc[v] \notin {"respond", "process", "rearm"})
    /\ \A w \in Workers :
        (wpc[w] = "respond") ~> (stopped_ \/ \E v \in Workers : InSend(v))

\* C6's case: a cycle handed its response to the demultiplexer on a running
\* channel with no task posted, and is about to post the next cycle.
SelfRearmWitness ==
    \E w \in Workers : wpc[w] = "rearm" /\ ~stopped_ /\ ~taskPosted_ /\ io_ = 0 /\ CanLock

\* C7: startPoll on a running channel and stopPoll on a stopped channel change
\* nothing: the flags, the binding, the queued tasks, the threads and the
\* pending request (no closeConnection) are as before.
IdempotentStartStop ==
    [][\A t \in Threads :
        ((startRuns(t) /\ ~stopped_) \/ (stopRuns(t) /\ stopped_))
            => UNCHANGED <<chan, work>>]_vars

\* C7's case: startPoll is about to run on a running channel whose request is
\* pending, while another caller is about to run stopPoll.
IdempotentStartStopWitness ==
    /\ ~stopped_ /\ connectionInProgress_ /\ CanLock
    /\ \E w \in Workers : InSend(w)
    /\ \E t, u \in Threads : pc[t] = "start" /\ op[t] = "startPoll" /\ pc[u] = "stop"

\* C8: no thread exists before the first startPoll, one exists after it, and
\* at most one is ever created; only created threads run poll cycles.
LazySingleWorker ==
    /\ pollThread_ = (IF firstStart_ THEN 0 ELSE 1)
    /\ \A w \in Workers : w > pollThread_ => wpc[w] = "idle"

\* C8's case: the channel was started, stopped and started again (two tasks
\* were posted) and is stopped once more, with one thread.
LazySingleWorkerWitness ==
    /\ pollThread_ = 1 /\ io_ = 2 /\ stopped_
    /\ \E t \in Threads : pc[t] = "bind"

\* The step is thread t leaving sync, syncAll or setServer through a guard:
\* unsupported or downward category, no bound server, wrong kind of descriptor.
guardStep(t) ==
    \/ /\ pc[t] = "sync" /\ pc'[t] # "sync"
       /\ ~(arg[t] \in DOMAIN SUPPORTED_TYPES
            /\ SUPPORTED_TYPES[arg[t]] \in {"UP", "BIDIRECTIONAL"})
    \/ /\ pc[t] \in {"sync", "syncAll"} /\ pc'[t] # pc[t]
       /\ currentServer_ = Null
    \/ /\ pc[t] = "setServer" /\ pc'[t] # "setServer"
       /\ getType(arg[t]) # "HTTP_LP"

\* C9: a call stopped by a guard returns at once and changes nothing.
NoOpGuards ==
    [][\A t \in Threads :
        guardStep(t) => (pc'[t] = "idle" /\ UNCHANGED <<chan, work>>)]_vars

\* C9's case: sync(EVENT) and setServer with a descriptor of another kind are
\* about to run on a bound, running channel whose request is pending.
NoOpGuardsWitness ==
    /\ currentServer_ # Null /\ ~stopped_ /\ Running
    /\ \E w \in Workers : InSend(w)
    /\ \E t, u \in Threads :
        /\ pc[t] = "sync" /\ arg[t] = "EVENT"
        /\ pc[u] = "setServer" /\ arg[u] = "H"

\* The channel is stopped and no request is outstanding.
Quiet == stopped_ /\ ~connectionInProgress_

\* From a stopped channel with no request outstanding: the flag stays false,
\* no request is built or sent and no task is posted until a startPoll runs,
\* of a caller or of the callback inside onServerFailed; a cycle that failed
\* and escalated leaves the channel so, and posts nothing itself.
SilentWhileStopped ==
    /\ Quiet =>
        /\ ~connectionInProgress_'
        /\ \A w \in Workers : wpc'[w] \in {"compile", "send"} => wpc'[w] = wpc[w]
        /\ (~stopped_' \/ io_' > io_)
            => \/ \E t \in Threads : startRuns(t)
               \/ \E w \in Workers : wpc[w] = "reStart" /\ wpc'[w] # "reStart"
    /\ \A w \in Workers :
        /\ (wpc[w] = "caught" /\ wpc'[w] = "notify" /\ isServerFailed'[w]) => Quiet'
        /\ (wpc[w] \in {"caught", "notify", "escalate"} /\ wpc'[w] # wpc[w])
            => (io_' = io_ /\ taskPosted_' = taskPosted_)

\* C10: once the channel is stopped, because a stopPoll returned or because a
\* cycle failed and escalated, connectionInProgress_ is false and stays false
\* and nothing is sent until startPoll runs again.
StoppedMeansSilent ==
    [][/\ \A t \in Threads :
            (stopReturns(t) /\ stopped_') => ~connectionInProgress_'
       /\ SilentWhileStopped]_vars

\* SilentWhileStopped as a property of every step.
AlwaysSilentWhileStopped == [][SilentWhileStopped]_vars

\* The poll-cycle tasks that io_ holds or that a thread is executing.
tasks == io_ + Cardinality({w \in Workers : wpc[w] # "idle"})

\* C11: in every reachable state the number of poll-cycle tasks queued in io_
\* plus the number being executed is at most 1.
AtMostOneTask == tasks <= 1

\* C12: an exception of compileRequest or of processResponse on a running
\* channel ends in the catch block: it does not leave executeTask, and the
\* catch block clears connectionInProgress_, stops the channel and marks the
\* server failed, so that waiters are notified and onServerFailed is called.
CollaboratorFailureHandled ==
    [][\A w \in Workers :
        /\ (wpc[w] = "compile" /\ cause'[w] = "compileRequest")
            => (~crashed' /\ wpc'[w] = "caught")
        /\ (wpc[w] = "process" /\ cause'[w] = "processResponse")
            => (~crashed' /\ wpc'[w] = "caught")
        /\ (wpc[w] = "caught" /\ wpc'[w] # "caught" /\ ~stopped_
                /\ cause[w] \in {"compileRequest", "processResponse"})
            => (~connectionInProgress_' /\ stopped_' /\ isServerFailed'[w])]_vars

\* A collaborator is unset.  Both setters take channelGuard_, which the worker
\* holds from the start of a cycle into compileRequest: what is unset at the
\* step out of "compile" was unset when the cycle began.
Absent == multiplexer_ = Null \/ demultiplexer_ = Null

\* C13: a cycle that began with the multiplexer or the demultiplexer unset is
\* left before compileRequest: no request is sent, connectionInProgress_ is
\* false again, onServerFailed is not called and the process lives.
AbsentCollaboratorsAbort ==
    [][\A w \in Workers :
        (wpc[w] = "compile" /\ Absent /\ (wpc'[w] # "compile" \/ crashed'))
            => /\ wpc'[w] = "idle"
               /\ ~connectionInProgress_'
               /\ ~crashed'
               /\ failedCalls'[w] = 0]_vars

\* C14: a worker that is inside compileRequest, sendRequest or processResponse
\* does not hold channelGuard_.
NoLockAcrossCollaborators ==
    \A w \in Workers :
        wpc[w] \in {"compile", "send", "process"} => channelGuard_ # w

\* The step is a worker taking a task from io_ on a stopped channel.
stoppedCycle(w) == wpc[w] = "idle" /\ io_' = io_ - 1 /\ stopped_

\* C15: connectionInProgress_ is true only while the channel is started, and a
\* cycle that finds the channel stopped when it has locked channelGuard_ sends
\* nothing: it clears taskPosted_ and returns.
InFlightOnlyWhileStarted ==
    /\ [](connectionInProgress_ => ~stopped_)
    /\ [][\A w \in Workers :
            stoppedCycle(w)
                => /\ wpc'[w] = "idle" /\ ~taskPosted_'
                   /\ UNCHANGED <<stopped_, connectionInProgress_, closeRequested>>]_vars

\* C16: a caller blocked in the wait of stopPoll eventually leaves it, and is
\* never still blocked when the request it closed has ended and a request on
\* which closeConnection was not called is in progress.
StopPollReturns ==
    /\ \A t \in Threads : (pc[t] = "waiting") ~> (pc[t] \notin {"waiting", "woken"})
    /\ [](\A t \in Threads :
            pc[t] \in {"waiting", "woken"} => (connectionInProgress_ => closeRequested))

\* Thread t is inside a sync or syncAll that passed its guards, after their
\* stopPoll and before their startPoll.  A cycle that is in compileRequest now
\* locked channelGuard_ after that stopPoll did.
syncRestarts(t) == pc[t] = "start" /\ op[t] \in {"sync", "syncAll"}

\* The step is the return of such a sync or syncAll.
syncReturns(t) == syncRestarts(t) /\ pc'[t] = "idle"

\* C17: a sync or syncAll that passes its guards returns with the channel
\* running, and is followed by a cycle that enters compileRequest, unless a
\* caller enters a stopPoll (its own, or that of a sync or setServer) after
\* the stopPoll of this sync.  Runs in which io_ fills up to MaxQueue are not
\* followed further.
SyncForcesCycle ==
    /\ [][\A t \in Threads : syncReturns(t) => ~stopped_']_vars
    /\ \A t \in Threads :
        syncRestarts(t)
            ~> \/ \E w \in Workers : wpc[w] = "compile"
               \/ \E u \in Threads : pc[u] = "stop"
               \/ io_ = MaxQueue

\* C18: within a cycle, the encoder with which createOperationRequest builds
\* the request and the encoder with which retrieveOperationResponse decodes
\* the response are those of the server the request is addressed to.
BindingConsistent ==
    [][\A w \in Workers :
        /\ (wpc[w] = "compile" /\ wpc'[w] = "send") => encDec_ = server[w]
        /\ (wpc[w] = "respond" /\ wpc'[w] # "respond") => encDec_ = server[w]]_vars

\* C19: a worker that is past the test of stopped_, building a request or
\* sending it, has captured a bound server.
NoCycleWithoutServer ==
    \A w \in Workers : wpc[w] \in {"compile", "send"} => server[w] # Null

\* A worker is inside onServerFailed, possibly inside a call the callback
\* makes back into the channel.
InCallback(w) == wpc[w] \in {"escalate", "reStop", "reWaiting", "reBind", "reStart"}

\* The step is a worker entering onServerFailed.
invokesOnServerFailed(w) == wpc[w] = "notify" /\ wpc'[w] = "escalate"

\* A callback that re-enters setServer or startPoll finds channelGuard_ not
\* held by its own thread and never blocks in the wait of stopPoll.
ReentryDoesNotBlock ==
    \A w \in Workers : InCallback(w) => (channelGuard_ # w /\ wpc[w] # "reWaiting")

\* C20: when a worker enters onServerFailed it does not hold channelGuard_,
\* connectionInProgress_ is false and stopped_ is true, and a callback that
\* re-enters setServer or startPoll neither deadlocks nor blocks.
EscalationOutsideLock ==
    /\ [][\A w \in Workers :
            invokesOnServerFailed(w)
                => (channelGuard_' # w /\ ~connectionInProgress_' /\ stopped_')]_vars
    /\ []ReentryDoesNotBlock

\* C20, amended: when a worker enters onServerFailed it does not hold
\* channelGuard_ and connectionInProgress_ is false and stays false inside the
\* callback; the catch block has set stopped_, which a startPoll of another
\* thread may have reset since; a callback that re-enters setServer or
\* startPoll neither deadlocks nor blocks.
EscalationOutsideLockAmended ==
    /\ [][\A w \in Workers :
            /\ invokesOnServerFailed(w) => (channelGuard_' # w /\ ~connectionInProgress_')
            /\ (wpc[w] = "caught" /\ isServerFailed'[w]) => stopped_']_vars
    /\ [](\A w \in Workers : InCallback(w) => ~connectionInProgress_)
    /\ []ReentryDoesNotBlock

\* C20's case: the callback has re-entered setServer and is about to run its
\* stopPoll on a channel that a startPoll of another thread has restarted since
\* the catch block stopped it, with the posted task queued.
EscalationOutsideLockWitness ==
    \E w \in Workers : wpc[w] = "reStop" /\ ~stopped_ /\ io_ >= 1 /\ CanLock

====
